---------------------------- MODULE Spec2Model ----------------------------
(***************************************************************************)
(* The trader-state replicator of otree_markets (the TraderState web       *)
(* component, src/message_types.txt lines 74-401): two order books, a      *)
(* trade list and the viewer's holdings, driven by the inbound messages    *)
(* confirm_enter, confirm_trade, confirm_cancel and error.                 *)
(*                                                                         *)
(* Every handler is a function from the component's state (a record with   *)
(* the component's properties, plus what the handler wrote to the console  *)
(* and which events it dispatched) to the state it leaves.  One action     *)
(* processes one inbound message through _on_message.  The round's         *)
(* countdown (_start and its tick callback) is a second pair of actions.   *)
(*                                                                         *)
(* Numbers: price, volume, traded_volume and order_id are ints in the      *)
(* message format; timestamps are floats of which only the order is read,  *)
(* so they are modelled by integers; cash and asset amounts are integers.  *)
(***************************************************************************)
EXTENDS Integers, Sequences, FiniteSets

VARIABLES
    bids,                \* this.bids
    asks,                \* this.asks
    trades,              \* this.trades
    availableCash,       \* this.availableCash
    settledCash,         \* this.settledCash
    availableAssetsDict, \* this.availableAssetsDict
    settledAssetsDict,   \* this.settledAssetsDict
    console,             \* console.warn calls made while handling the last message
    dispatched,          \* events dispatched while handling the last message
    thrown,              \* what _on_message threw for the last message ("none" if nothing)
    called,              \* the function _on_message called for the last message
    msg,                 \* the last inbound message
    pre,                 \* the component's properties before the last message
    nEvents,             \* number of inbound messages processed
    residentRefs,        \* history: every cancel and every making order so far named a resident order
    nTrades,             \* history: number of confirm_trade messages handled without a throw
    timeRemaining,       \* this.timeRemaining: Null or a number
    pending,             \* number of tick callbacks setTimeout holds
    time_remaining,      \* TRADER_STATE.time_remaining, the value timeRemaining started with
    nStarts,             \* number of period-start events delivered
    lastTimer            \* the last step of the timer, and timeRemaining and pending before it

vars == <<bids, asks, trades, availableCash, settledCash, availableAssetsDict,
          settledAssetsDict, console, dispatched, thrown, called, msg, pre,
          nEvents, residentRefs, nTrades, timeRemaining, pending, time_remaining,
          nStarts, lastTimer>>

timerVars == <<timeRemaining, pending, time_remaining, nStarts, lastTimer>>
marketVars == <<bids, asks, trades, availableCash, settledCash, availableAssetsDict,
                settledAssetsDict, console, dispatched, thrown, called, msg, pre,
                nEvents, residentRefs, nTrades>>

---------------------------------------------------------------------------
(* Bounds of the model *)

MaxEvents == 3      \* inbound messages per behaviour
MaxMakers == 2      \* making orders per trade
MaxTime == 2        \* seconds a round starts with, at most
MaxStarts == 2      \* period-start events per behaviour

(* The values the inbound messages draw their fields from *)

Prices == {1, 2}
Timestamps == {1, 2}
Volumes == {1, 2}

(* The session's configuration (TRADER_STATE and otree-constants) *)

Viewer == "P1"      \* this.pcode
Other == "P2"       \* another participant on the same channel
Pcodes == {Viewer, Other}
Assets == {"A", "B"}
InitCash == 20      \* TRADER_STATE.settled_cash = TRADER_STATE.available_cash
InitAssets == 10    \* TRADER_STATE.settled_assets[a] = TRADER_STATE.available_assets[a]

---------------------------------------------------------------------------
(* Array.prototype.splice as Polymer's this.splice(path, start, deleteCount, *)
(* item) calls it, start a JavaScript index (0-based) already an integer.  *)
splice(array, start, deleteCount, items) ==
    LET n == Len(array)
        s == IF start < 0 THEN (IF n + start < 0 THEN 0 ELSE n + start)
             ELSE IF start > n THEN n ELSE start
        d == IF deleteCount < 0 THEN 0
             ELSE IF deleteCount > n - s THEN n - s ELSE deleteCount
    IN  SubSeq(array, 1, s) \o items \o SubSeq(array, s + d + 1, n)

(* A JavaScript value that is either undefined (<<>>) or a number (<<n>>). *)
Undefined == <<>>
Num(n) == <<n>>

(* v is undefined: it is neither an object with properties nor a number. *)
IsUndefined(v) == DOMAIN v = {}

(* Reading a property of undefined throws a TypeError, which leaves the    *)
(* handler at once, with what it has written so far.                       *)
TypeError == "TypeError: cannot read properties of undefined"
Throw(S, e) == [S EXCEPT !.thrown = e]

(* null, for a timeRemaining that is not set. *)
Null == <<>>

(* !v for v null or a number *)
Not(v) == v = Null \/ v[1] = 0

(* v <= 0 for v null or a number: null converts to 0 *)
JsLessEq0(v) == v = Null \/ v[1] <= 0

(* v < n in JavaScript: undefined converts to NaN, and NaN < n is false. *)
JsLess(v, n) == v # Undefined /\ v[1] < n

(* ToIntegerOrInfinity, applied by Array.prototype.splice to its start. *)
ToInteger(v) == IF v = Undefined THEN 0 ELSE v[1]

(* this._update_subproperty(property, subproperty, amount) *)
_update_subproperty(S, property, subproperty, amount) ==
    [S EXCEPT ![property][subproperty] = @ + amount]

(* _compare_orders with the tie decided the other way round *)
_compare_orders_ties_reversed(o1, o2) ==
    IF o1.price = o2.price
    THEN o1.timestamp - o2.timestamp
    ELSE o1.price - o2.price

(* _compare_orders(o1, o2) *)
_compare_orders(o1, o2) ==
    IF o1.price = o2.price
    THEN -(o1.timestamp - o2.timestamp)
    ELSE o1.price - o2.price

(* The scan of _insert_bid: the first index i from `i` on with             *)
(* _compare_orders(bids[i], order) < 0, or bids.length.                    *)
RECURSIVE _insert_bid_scan(_, _, _)
_insert_bid_scan(store, order, i) ==
    IF ~(i < Len(store)) THEN i
    ELSE IF _compare_orders(store[i + 1], order) < 0 THEN i
    ELSE _insert_bid_scan(store, order, i + 1)

(* _insert_bid taking the reserved amount from the settled cash as well *)
_insert_bid_settled(S, order) ==
    LET i == _insert_bid_scan(S.bids, order, 0)
        T == [S EXCEPT !.bids = splice(S.bids, i, 0, <<order>>)]
    IN  IF order.pcode = Viewer
        THEN [T EXCEPT !.availableCash = @ - order.price * order.volume,
                       !.settledCash = @ - order.price * order.volume]
        ELSE T

(* _insert_bid(order) *)
_insert_bid(S, order) ==
    LET i == _insert_bid_scan(S.bids, order, 0)
        T == [S EXCEPT !.bids = splice(S.bids, i, 0, <<order>>)]
    IN  IF order.pcode = Viewer
        THEN [T EXCEPT !.availableCash = @ - order.price * order.volume]
        ELSE T

(* The scan of _insert_ask: the first index i from `i` on with             *)
(* _compare_orders(asks[i], order) > 0, or asks.length.                    *)
RECURSIVE _insert_ask_scan(_, _, _)
_insert_ask_scan(store, order, i) ==
    IF ~(i < Len(store)) THEN i
    ELSE IF _compare_orders(store[i + 1], order) > 0 THEN i
    ELSE _insert_ask_scan(store, order, i + 1)

(* _insert_ask(order) *)
_insert_ask(S, order) ==
    LET i == _insert_ask_scan(S.asks, order, 0)
        T == [S EXCEPT !.asks = splice(S.asks, i, 0, <<order>>)]
    IN  IF order.pcode = Viewer
        THEN _update_subproperty(T, "availableAssetsDict", order.asset_name, -order.volume)
        ELSE T

(* this.dispatchEvent(new CustomEvent(name, {detail: detail, ...})) *)
dispatchEvent(S, name, detail) ==
    [S EXCEPT !.dispatched = Append(@, [name |-> name, detail |-> detail])]

(* _handle_confirm_enter without its else: a bid goes into both books *)
_handle_confirm_enter_no_else(S, order) ==
    LET T == IF order.is_bid THEN _insert_bid(S, order) ELSE S
    IN  dispatchEvent(_insert_ask(T, order), "confirm-order-enter", order)

(* _handle_confirm_enter(msg) *)
_handle_confirm_enter(S, order) ==
    IF IsUndefined(order) THEN Throw(S, TypeError)      \* order.is_bid
    ELSE LET T == IF order.is_bid THEN _insert_bid(S, order) ELSE _insert_ask(S, order)
         IN  dispatchEvent(T, "confirm-order-enter", order)

(* The scan of _remove_order: the first index i from `i` on whose order    *)
(* has the order_id, or order_store.length.                                *)
RECURSIVE _remove_order_scan(_, _, _)
_remove_order_scan(order_store, order, i) ==
    IF ~(i < Len(order_store)) THEN i
    ELSE IF order_store[i + 1].order_id = order.order_id THEN i
    ELSE _remove_order_scan(order_store, order, i + 1)

(* _remove_order(order) *)
_remove_order(S, order) ==
    LET order_store_name == IF order.is_bid THEN "bids" ELSE "asks"
        order_store == S[order_store_name]
        i == _remove_order_scan(order_store, order, 0)
    IN  IF i >= Len(order_store)
        THEN [S EXCEPT !.console = Append(@, [order_id |-> order.order_id,
                                               store |-> order_store_name])]
        ELSE [S EXCEPT ![order_store_name] = splice(order_store, i, 1, <<>>)]

(* _update_holdings(price, volume, is_bid, asset_name) *)
_update_holdings(S, price, volume, is_bid, asset_name) ==
    IF is_bid
    THEN LET T1 == _update_subproperty(S, "availableAssetsDict", asset_name, volume)
             T2 == _update_subproperty(T1, "settledAssetsDict", asset_name, volume)
         IN  [T2 EXCEPT !.availableCash = @ - price * volume,
                        !.settledCash = @ - price * volume]
    ELSE LET T1 == _update_subproperty(S, "availableAssetsDict", asset_name, -volume)
             T2 == _update_subproperty(T1, "settledAssetsDict", asset_name, -volume)
         IN  [T2 EXCEPT !.availableCash = @ + price * volume,
                        !.settledCash = @ + price * volume]

(* The loop body with the maker's resting volume for its traded volume *)
_trade_leg_resting_volume(S, m, making_order) ==
    LET T1 == IF making_order.pcode = Viewer
              THEN _update_holdings(S, making_order.price, making_order.volume,
                                    making_order.is_bid, making_order.asset_name)
              ELSE S
        T2 == IF m.taking_order.pcode = Viewer
              THEN _update_holdings(T1, making_order.price, making_order.traded_volume,
                                    m.taking_order.is_bid, m.taking_order.asset_name)
              ELSE T1
    IN  _remove_order(T2, making_order)

(* The loop body with the maker's side and asset for the taker's update *)
_trade_leg_maker_side(S, m, making_order) ==
    LET T1 == IF making_order.pcode = Viewer
              THEN _update_holdings(S, making_order.price, making_order.traded_volume,
                                    making_order.is_bid, making_order.asset_name)
              ELSE S
        T2 == IF m.taking_order.pcode = Viewer
              THEN _update_holdings(T1, making_order.price, making_order.traded_volume,
                                    making_order.is_bid, making_order.asset_name)
              ELSE T1
    IN  _remove_order(T2, making_order)

(* The loop body leaving a maker that was filled in part in its book *)
_trade_leg_keeps_partial(S, m, making_order) ==
    LET T1 == IF making_order.pcode = Viewer
              THEN _update_holdings(S, making_order.price, making_order.traded_volume,
                                    making_order.is_bid, making_order.asset_name)
              ELSE S
        T2 == IF m.taking_order.pcode = Viewer
              THEN _update_holdings(T1, making_order.price, making_order.traded_volume,
                                    m.taking_order.is_bid, m.taking_order.asset_name)
              ELSE T1
    IN  IF making_order.traded_volume < making_order.volume
        THEN T2
        ELSE _remove_order(T2, making_order)

(* One iteration of the loop of _handle_confirm_trade over making_orders. *)
_trade_leg(S, m, making_order) ==
    IF IsUndefined(making_order) THEN Throw(S, TypeError)   \* making_order.pcode
    ELSE LET T1 == IF making_order.pcode = Viewer
                   THEN _update_holdings(S, making_order.price, making_order.traded_volume,
                                         making_order.is_bid, making_order.asset_name)
                   ELSE S
         IN  IF IsUndefined(m.taking_order) THEN Throw(T1, TypeError)  \* msg.taking_order.pcode
             ELSE LET T2 == IF m.taking_order.pcode = Viewer
                            THEN _update_holdings(T1, making_order.price,
                                                  making_order.traded_volume,
                                                  m.taking_order.is_bid,
                                                  m.taking_order.asset_name)
                            ELSE T1
                  IN  _remove_order(T2, making_order)

(* The loop over making_orders ending at the first maker that is not in its book *)
RECURSIVE _trade_legs_stop_at_stale(_, _, _)
_trade_legs_stop_at_stale(S, m, k) ==
    IF k > Len(m.making_orders) THEN S
    ELSE LET store == IF m.making_orders[k].is_bid THEN S.bids ELSE S.asks
         IN  IF \A j \in 1..Len(store) : store[j].order_id # m.making_orders[k].order_id
             THEN S
             ELSE _trade_legs_stop_at_stale(_trade_leg(S, m, m.making_orders[k]), m, k + 1)

(* for (const making_order of msg.making_orders), from the k-th on. *)
RECURSIVE _trade_legs(_, _, _)
_trade_legs(S, m, k) ==
    IF k > Len(m.making_orders) THEN S
    ELSE LET T == _trade_leg(S, m, m.making_orders[k])
         IN  IF T.thrown # "none" THEN T ELSE _trade_legs(T, m, k + 1)

(* The scan for the trade's place: `let i;` declares i without a value, so *)
(* i is undefined when the loop tests i < this.trades.length.              *)
RECURSIVE _trade_scan(_, _, _)
_trade_scan(ts, timestamp, i) ==
    IF ~JsLess(i, Len(ts)) THEN i
    ELSE IF ts[i[1] + 1].timestamp > timestamp THEN i
    ELSE _trade_scan(ts, timestamp, Num(i[1] + 1))

(* _handle_confirm_trade putting the trade in the place of a recorded one *)
_handle_confirm_trade_replaces(S, m) ==
    LET T == _trade_legs(S, m, 1)
        trade == [timestamp |-> m.timestamp, asset_name |-> m.asset_name,
                  taking_order |-> m.taking_order, making_orders |-> m.making_orders]
        i == _trade_scan(T.trades, m.timestamp, Undefined)
        U == [T EXCEPT !.trades = splice(T.trades, ToInteger(i), 1, <<trade>>)]
    IN  dispatchEvent(U, "confirm-trade", trade)

(* _handle_confirm_trade(msg) *)
_handle_confirm_trade(S, m) ==
    LET T == _trade_legs(S, m, 1)
        trade == [timestamp |-> m.timestamp, asset_name |-> m.asset_name,
                  taking_order |-> m.taking_order, making_orders |-> m.making_orders]
        i == _trade_scan(T.trades, m.timestamp, Undefined)
        U == [T EXCEPT !.trades = splice(T.trades, ToInteger(i), 0, <<trade>>)]
    IN  IF T.thrown # "none" THEN T
        ELSE dispatchEvent(U, "confirm-trade", trade)

(* _handle_confirm_cancel giving back the price, not price * volume *)
_handle_confirm_cancel_price_only(S, order) ==
    LET T == _remove_order(S, order)
        U == IF order.pcode = Viewer
             THEN IF order.is_bid
                  THEN [T EXCEPT !.availableCash = @ + order.price]
                  ELSE _update_subproperty(T, "availableAssetsDict",
                                           order.asset_name, order.volume)
             ELSE T
    IN  dispatchEvent(U, "confirm-order-cancel", order)

(* _handle_confirm_cancel without the pcode test *)
_handle_confirm_cancel_any_owner(S, order) ==
    LET T == _remove_order(S, order)
        U == IF order.is_bid
             THEN [T EXCEPT !.availableCash = @ + order.price * order.volume]
             ELSE _update_subproperty(T, "availableAssetsDict",
                                      order.asset_name, order.volume)
    IN  dispatchEvent(U, "confirm-order-cancel", order)

(* _handle_confirm_cancel(msg) *)
_handle_confirm_cancel(S, order) ==
    IF IsUndefined(order) THEN Throw(S, TypeError)      \* order.is_bid in _remove_order
    ELSE LET T == _remove_order(S, order)
             U == IF order.pcode = Viewer
                  THEN IF order.is_bid
                       THEN [T EXCEPT !.availableCash = @ + order.price * order.volume]
                       ELSE _update_subproperty(T, "availableAssetsDict",
                                                order.asset_name, order.volume)
                  ELSE T
         IN  dispatchEvent(U, "confirm-order-cancel", order)

(* _handle_error without the pcode filter *)
_handle_error_unfiltered(S, e) ==
    dispatchEvent(S, "error", e.message)

(* _handle_error(msg) *)
_handle_error(S, e) ==
    IF IsUndefined(e) THEN Throw(S, TypeError)          \* msg.pcode
    ELSE IF e.pcode = Viewer THEN dispatchEvent(S, "error", e.message) ELSE S

---------------------------------------------------------------------------
(* The countdown: T is [timeRemaining, pending] *)

(* tick without its test of timeRemaining *)
tick_unguarded(T) ==
    [T EXCEPT !.timeRemaining = Num(@[1] - 1)]

(* tick: one run of the callback setTimeout held; it leaves the callback   *)
(* pending again unless timeRemaining <= 0                                 *)
tick(T) ==
    IF JsLessEq0(T.timeRemaining)
    THEN [T EXCEPT !.pending = @ - 1]
    ELSE [T EXCEPT !.timeRemaining = Num(@[1] - 1)]

(* _start() *)
_start(T) ==
    IF Not(T.timeRemaining) THEN T
    ELSE [T EXCEPT !.pending = @ + 1]

---------------------------------------------------------------------------
(* Dispatch *)

(* this.message_handlers, set in ready(): the object's own properties. *)
message_handlers ==
    [confirm_enter |-> "_handle_confirm_enter",
     confirm_trade |-> "_handle_confirm_trade",
     confirm_cancel |-> "_handle_confirm_cancel",
     error |-> "_handle_error"]

(* message_handlers is an object literal, so a property it does not own is *)
(* looked up in Object.prototype: these names give a function there ...    *)
PrototypeFunctions == {"toString", "constructor"}
(* ... and this one gives an object, which has no call method. *)
PrototypeObjects == {"__proto__"}

(* this.message_handlers[msg.type] *)
GetHandler(type) ==
    IF type \in DOMAIN message_handlers THEN message_handlers[type]
    ELSE IF type \in PrototypeFunctions THEN "Object.prototype." \o type
    ELSE IF type \in PrototypeObjects THEN "Object.prototype"
    ELSE "undefined"

(* handler.call(this, msg.payload) for each function a lookup can give. *)
CallHandler(S, handler, payload) ==
    CASE handler = "_handle_confirm_enter" -> _handle_confirm_enter(S, payload)
      [] handler = "_handle_confirm_trade" -> _handle_confirm_trade(S, payload)
      [] handler = "_handle_confirm_cancel" -> _handle_confirm_cancel(S, payload)
      [] handler = "_handle_error" -> _handle_error(S, payload)
      [] OTHER -> S     \* a function of Object.prototype: no effect on the component

(* The component's properties as one record, with nothing warned,          *)
(* dispatched or thrown yet.                                               *)
Cur ==
    [bids |-> bids, asks |-> asks, trades |-> trades,
     availableCash |-> availableCash, settledCash |-> settledCash,
     availableAssetsDict |-> availableAssetsDict,
     settledAssetsDict |-> settledAssetsDict,
     console |-> <<>>, dispatched |-> <<>>, thrown |-> "none"]

(* _on_message(event): the result [state, thrown, called]. *)
_on_message(S, m) ==
    LET handler == GetHandler(m.type)
    IN  IF handler = "undefined"
        THEN [state |-> S, thrown |-> "error: invalid message type", called |-> "none"]
        ELSE IF handler = "Object.prototype"
        THEN [state |-> S, thrown |-> "TypeError: handler.call is not a function",
              called |-> "none"]
        ELSE LET T == CallHandler(S, handler, m.payload)
             IN  [state |-> T, thrown |-> T.thrown, called |-> handler]

---------------------------------------------------------------------------
(* What a message refers to *)

Store(S, is_bid) == IF is_bid THEN S.bids ELSE S.asks
Range(s) == {s[k] : k \in 1..Len(s)}
Ids(s) == {s[k].order_id : k \in 1..Len(s)}
ResidentId(S, id) == id \in Ids(S.bids) \cup Ids(S.asks)
Entered(o) == [o EXCEPT !.traded_volume = 0]
(* order names an order resident in the book its is_bid selects *)
Resident(S, order) == Entered(order) \in Range(Store(S, order.is_bid))
DistinctIds(s) == \A j, k \in 1..Len(s) : j # k => s[j].order_id # s[k].order_id

(* m has its payload, and a trade its taking order and every making order *)
WellFormed(m) ==
    /\ ~IsUndefined(m.payload)
    /\ m.type = "confirm_trade" =>
          /\ ~IsUndefined(m.payload.taking_order)
          /\ \A k \in 1..Len(m.payload.making_orders) :
                ~IsUndefined(m.payload.making_orders[k])

(* history: m's cancel or making orders each name a resident order *)
RefsResident(S, m) ==
    /\ m.type \in {"confirm_cancel", "confirm_trade"} => WellFormed(m)
    /\ m.type = "confirm_cancel" => Resident(S, m.payload)
    /\ m.type = "confirm_trade" =>
          /\ \A k \in 1..Len(m.payload.making_orders) :
                Resident(S, m.payload.making_orders[k])
          /\ DistinctIds(m.payload.making_orders)

---------------------------------------------------------------------------
(* The action: one inbound message through _on_message. *)
Receive(m) ==
    /\ nEvents < MaxEvents
    /\ \E r \in {_on_message(Cur, m)} :
           /\ bids' = r.state.bids
           /\ asks' = r.state.asks
           /\ trades' = r.state.trades
           /\ availableCash' = r.state.availableCash
           /\ settledCash' = r.state.settledCash
           /\ availableAssetsDict' = r.state.availableAssetsDict
           /\ settledAssetsDict' = r.state.settledAssetsDict
           /\ console' = r.state.console
           /\ dispatched' = r.state.dispatched
           /\ thrown' = r.thrown
           /\ called' = r.called
           /\ nTrades' = IF m.type = "confirm_trade" /\ r.thrown = "none"
                         THEN nTrades + 1 ELSE nTrades
    /\ msg' = m
    /\ pre' = Cur
    /\ nEvents' = nEvents + 1
    /\ residentRefs' = (residentRefs /\ RefsResident(Cur, m))
    /\ UNCHANGED timerVars

InitWith(t) ==
    /\ timeRemaining = t
    /\ time_remaining = t
    /\ pending = 0
    /\ nStarts = 0
    /\ lastTimer = [op |-> "none", timeRemaining |-> t, pending |-> 0]
    /\ bids = <<>>
    /\ asks = <<>>
    /\ trades = <<>>
    /\ availableCash = InitCash
    /\ settledCash = InitCash
    /\ availableAssetsDict = [a \in Assets |-> InitAssets]
    /\ settledAssetsDict = [a \in Assets |-> InitAssets]
    /\ console = <<>>
    /\ dispatched = <<>>
    /\ thrown = "none"
    /\ called = "none"
    /\ msg = [type |-> "none"]
    /\ pre = Cur
    /\ nEvents = 0
    /\ residentRefs = TRUE
    /\ nTrades = 0

(* no period length is set: time_remaining is null *)
Init == InitWith(Null)

Message(type, payload) == [type |-> type, payload |-> payload]

ConfirmEnter(order) == Receive(Message("confirm_enter", order))
ConfirmCancel(order) == Receive(Message("confirm_cancel", order))
ConfirmTrade(trade) == Receive(Message("confirm_trade", trade))
Error(e) == Receive(Message("error", e))
Unrecognized(type) == Receive(Message(type, <<>>))

---------------------------------------------------------------------------
(* Inbound messages.  The matching engine gives a new order an id that no  *)
(* resident order has; a cancel or a making order is a resident order as   *)
(* it was entered, or names an order this replica does not hold (stale).   *)

Order(timestamp, price, volume, is_bid, pcode, order_id, asset_name) ==
    [timestamp |-> timestamp, price |-> price, volume |-> volume,
     is_bid |-> is_bid, pcode |-> pcode, traded_volume |-> 0,
     order_id |-> order_id, asset_name |-> asset_name]

(* the smallest id no resident order has *)
FreshId(S) ==
    CHOOSE id \in 1..(Len(S.bids) + Len(S.asks) + 1) :
        /\ ~ResidentId(S, id)
        /\ \A j \in 1..(id - 1) : ResidentId(S, j)

WithFreshId(S, shapes) == {[o EXCEPT !.order_id = FreshId(S)] : o \in shapes}

Residents(S) == Range(S.bids) \cup Range(S.asks)

(* a making order: the order with the volume this trade took from it *)
Fill(o, v) == [o EXCEPT !.traded_volume = v]
FullFills(os) == {Fill(o, o.volume) : o \in os}
Fills(os) == {Fill(o, v) : o \in os, v \in Volumes}

(* Sequences over M of length 1..n that name no order twice *)
RECURSIVE SeqsOfLen(_, _)
SeqsOfLen(M, n) ==
    IF n = 0 THEN {<<>>}
    ELSE {Append(s, x) : s \in SeqsOfLen(M, n - 1), x \in M}
MakerSeqs(M, n) ==
    {s \in UNION {SeqsOfLen(M, k) : k \in 1..n} : DistinctIds(s)}

Trade(timestamp, taking_order, making_orders) ==
    [timestamp |-> timestamp, asset_name |-> taking_order.asset_name,
     taking_order |-> taking_order, making_orders |-> making_orders]

(* Orders that differ in what the books read: price, timestamp and side. *)
BookShapes ==
    {Order(t, p, 1, b, Other, 0, "A") : t \in Timestamps, p \in Prices, b \in BOOLEAN}
BookStale == {Order(1, 1, 1, b, Other, 0, "A") : b \in BOOLEAN}
BookTaker == Order(1, 1, 1, TRUE, Other, 0, "A")

NextBooks ==
    \/ \E o \in WithFreshId(Cur, BookShapes) : ConfirmEnter(o)
    \/ \E o \in Residents(Cur) \cup WithFreshId(Cur, BookStale) : ConfirmCancel(o)
    \/ \E ms \in MakerSeqs(FullFills(Residents(Cur) \cup WithFreshId(Cur, {BookTaker})),
                           MaxMakers) :
          ConfirmTrade(Trade(1, BookTaker, ms))

SpecBooks == Init /\ [][NextBooks]_vars

(* Orders that differ in what the holdings read: owner, side, price,      *)
(* volume and asset.                                                       *)
HoldShapes ==
    {Order(1, p, v, TRUE, Viewer, 0, "A") : p \in Prices, v \in Volumes}
        \cup {Order(1, 2, 1, FALSE, Viewer, 0, "A"), Order(1, 2, 2, FALSE, Viewer, 0, "B")}
        \cup {Order(1, 1, 2, b, Other, 0, "A") : b \in BOOLEAN}
HoldStale ==
    {Order(1, 2, 1, TRUE, Viewer, 0, "A"), Order(1, 2, 1, FALSE, Viewer, 0, "B"),
     Order(1, 2, 1, TRUE, Other, 0, "A")}
HoldTaker == Order(1, 1, 2, FALSE, Other, 0, "A")

Errors == {[pcode |-> pc, message |-> "rejected"] : pc \in Pcodes}
UnknownTypes == {"unknown_type", "toString", "__proto__"}

Next ==
    \/ \E o \in WithFreshId(Cur, HoldShapes) : ConfirmEnter(o)
    \/ \E o \in Residents(Cur) \cup WithFreshId(Cur, HoldStale) : ConfirmCancel(o)
    \/ \E ms \in MakerSeqs(FullFills(Residents(Cur) \cup WithFreshId(Cur, {HoldTaker})),
                           MaxMakers) :
          ConfirmTrade(Trade(1, HoldTaker, ms))
    \/ \E e \in Errors : Error(e)
    \/ \E type \in UnknownTypes : Unrecognized(type)

Spec == Init /\ [][Next]_vars

(* Trades that differ in what _handle_confirm_trade reads: the time, the   *)
(* taker's owner, side and asset, each maker's owner, side, price and      *)
(* traded volume (a resident maker is filled in part).                     *)
TradeShapes == {Order(1, 2, 2, b, pc, 0, "A") : b \in BOOLEAN, pc \in Pcodes}
TradeStale == Order(1, 1, 2, FALSE, Other, 0, "A")
TradeTakers ==
    {Order(2, 1, 2, FALSE, Other, 0, "A"), Order(2, 1, 2, TRUE, Viewer, 0, "B"),
     Order(2, 1, 2, FALSE, Viewer, 0, "B")}
PartFills(os) == {Fill(o, 1) : o \in os}

NextTrade ==
    \/ \E o \in WithFreshId(Cur, TradeShapes) : ConfirmEnter(o)
    \/ \E t \in Timestamps, taker \in TradeTakers,
         ms \in MakerSeqs(PartFills(Residents(Cur))
                            \cup FullFills(WithFreshId(Cur, {TradeStale})),
                          MaxMakers) :
          ConfirmTrade(Trade(t, taker, ms))

SpecTrade == Init /\ [][NextTrade]_vars

(* Malformed messages: a message without its payload, a trade without its  *)
(* taking order, a trade with an undefined entry among its making orders.  *)
FaultShapes ==
    {Order(1, 1, 1, b, Viewer, 0, "A") : b \in BOOLEAN}
        \cup {Order(1, 1, 1, TRUE, Other, 0, "A")}
FaultTaker == Order(1, 1, 1, FALSE, Other, 0, "A")
FaultMakerSeqs(M, n) == UNION {SeqsOfLen(M, k) : k \in 1..n}

NextMalformed ==
    \/ \E o \in WithFreshId(Cur, FaultShapes) : ConfirmEnter(o)
    \/ \E type \in {"confirm_enter", "confirm_cancel", "error"} :
          Receive(Message(type, Undefined))
    \/ \E taker \in {FaultTaker, Undefined},
          ms \in FaultMakerSeqs(FullFills(Residents(Cur)) \cup {Undefined}, MaxMakers) :
          ConfirmTrade([timestamp |-> 1, asset_name |-> "A",
                        taking_order |-> taker, making_orders |-> ms])

SpecMalformed == Init /\ [][NextMalformed]_vars

(* The round's countdown.  redwood-period delivers period-start, setTimeout *)
(* runs a pending tick, and market messages arrive in between.             *)
CurTimer == [timeRemaining |-> timeRemaining, pending |-> pending]

TimerStep(op, T) ==
    /\ timeRemaining' = T.timeRemaining
    /\ pending' = T.pending
    /\ lastTimer' = [op |-> op, timeRemaining |-> timeRemaining, pending |-> pending]
    /\ UNCHANGED time_remaining

PeriodStart ==
    /\ nStarts < MaxStarts
    /\ nStarts' = nStarts + 1
    /\ TimerStep("_start", _start(CurTimer))
    /\ UNCHANGED marketVars

Tick ==
    /\ pending > 0
    /\ TimerStep("tick", tick(CurTimer))
    /\ UNCHANGED <<nStarts, marketVars>>

TimeRemainings == {Null} \cup {Num(n) : n \in 0..MaxTime}
TimerShapes == {Order(1, 1, 1, b, Viewer, 0, "A") : b \in BOOLEAN}

InitTimer == \E t \in TimeRemainings : InitWith(t)

NextTimer ==
    \/ PeriodStart
    \/ Tick
    \/ \E o \in WithFreshId(Cur, TimerShapes) : ConfirmEnter(o)

(* setTimeout runs a pending callback: weak fairness of Tick *)
SpecTimer == InitTimer /\ [][NextTimer]_vars /\ WF_vars(Tick)

---------------------------------------------------------------------------
(* The books *)

(* a ranks no later than b in the bid book: higher price first, then the earlier timestamp *)
BidBefore(a, b) ==
    a.price > b.price \/ (a.price = b.price /\ a.timestamp <= b.timestamp)
(* a ranks no later than b in the ask book: lower price first, then the earlier timestamp *)
AskBefore(a, b) ==
    a.price < b.price \/ (a.price = b.price /\ a.timestamp <= b.timestamp)

(* C1: after every processed event the bid book is sorted by descending    *)
(* price, and bids of equal price are in ascending timestamp order.        *)
C1_BidsSorted ==
    \A j, k \in 1..Len(bids) : j < k => BidBefore(bids[j], bids[k])

(* C1 witness: three bids rest in the book, and the one that arrived last  *)
(* stands in the middle: below the higher price and, at equal price, ahead *)
(* of a bid with a later timestamp that arrived before it.                 *)
C1_Witness ==
    /\ msg.type = "confirm_enter"
    /\ Len(bids) = 3
    /\ bids[2] = msg.payload
    /\ bids[1].price > bids[2].price
    /\ bids[2].price = bids[3].price
    /\ bids[2].timestamp < bids[3].timestamp

(* C2: after every processed event the ask book is sorted by ascending     *)
(* price, and asks of equal price are in ascending timestamp order.        *)
C2_AsksSorted ==
    \A j, k \in 1..Len(asks) : j < k => AskBefore(asks[j], asks[k])

(* C10: an order_id appears at most once across both books combined, the   *)
(* engine giving every entered order an id that is not resident.           *)
C10_UniqueOrderIds ==
    /\ \A j, k \in 1..Len(bids) : j # k => bids[j].order_id # bids[k].order_id
    /\ \A j, k \in 1..Len(asks) : j # k => asks[j].order_id # asks[k].order_id
    /\ Ids(bids) \cap Ids(asks) = {}

(* C10 witness: each book holds one order, the second of them entered by   *)
(* the last message under an id of its own.                                *)
C10_Witness ==
    /\ msg.type = "confirm_enter"
    /\ bids # <<>> /\ asks # <<>>
    /\ Len(bids) + Len(asks) = 2
    /\ msg.payload.order_id = 2
    /\ Ids(bids) \cup Ids(asks) = {1, 2}

---------------------------------------------------------------------------
(* The trade list *)

(* the trade list with trade put before the first trade later than it *)
RECURSIVE InsertByTime(_, _)
InsertByTime(ts, trade) ==
    IF ts = <<>> THEN <<trade>>
    ELSE IF Head(ts).timestamp > trade.timestamp THEN <<trade>> \o ts
    ELSE <<Head(ts)>> \o InsertByTime(Tail(ts), trade)

(* C3: after every processed confirm_trade the trade list is sorted by     *)
(* ascending timestamp: the new trade stands immediately before the first  *)
(* recorded trade with a greater timestamp, or at the end.                 *)
C3_TradesSorted ==
    /\ \A j, k \in 1..Len(trades) : j < k => trades[j].timestamp <= trades[k].timestamp
    /\ msg.type = "confirm_trade" =>
          trades = InsertByTime(pre.trades,
                                Trade(msg.payload.timestamp, msg.payload.taking_order,
                                      msg.payload.making_orders))

---------------------------------------------------------------------------
(* The holdings *)

Holdings(S) ==
    [availableCash |-> S.availableCash, settledCash |-> S.settledCash,
     availableAssetsDict |-> S.availableAssetsDict,
     settledAssetsDict |-> S.settledAssetsDict]
Books(S) == [bids |-> S.bids, asks |-> S.asks]

(* what the viewer's resting bids reserve: the sum of price * volume *)
RECURSIVE ReservedCashIn(_)
ReservedCashIn(store) ==
    IF store = <<>> THEN 0
    ELSE (IF Head(store).pcode = Viewer THEN Head(store).price * Head(store).volume ELSE 0)
            + ReservedCashIn(Tail(store))
ReservedCash(S) == ReservedCashIn(S.bids)

(* what the viewer's resting asks for the asset a reserve: the sum of volume *)
RECURSIVE ReservedAssetsIn(_, _)
ReservedAssetsIn(store, a) ==
    IF store = <<>> THEN 0
    ELSE (IF Head(store).pcode = Viewer /\ Head(store).asset_name = a
          THEN Head(store).volume ELSE 0)
            + ReservedAssetsIn(Tail(store), a)
ReservedAssets(S, a) == ReservedAssetsIn(S.asks, a)

(* C4: as long as every cancel and every making order named a resident     *)
(* order, available cash is settled cash minus price * volume of the       *)
(* viewer's resting bids, and the available amount of each asset is the    *)
(* settled amount minus the volume of the viewer's resting asks for it.    *)
C4_AvailableIsSettledMinusReserved ==
    residentRefs =>
        /\ availableCash = settledCash - ReservedCash(Cur)
        /\ \A a \in Assets :
              availableAssetsDict[a] = settledAssetsDict[a] - ReservedAssets(Cur, a)

(* the orders the viewer may enter in the state S *)
ViewerOrders(S) ==
    {Order(t, p, v, b, Viewer, FreshId(S), a) :
        t \in Timestamps, p \in Prices, v \in Volumes, b \in BOOLEAN, a \in Assets}

After(S, type, payload) == _on_message(S, Message(type, payload)).state

(* C5: in every state, confirm_enter of an order of the viewer followed by *)
(* confirm_cancel of the same order gives back the available cash, every   *)
(* available asset amount and both books as they were.                     *)
C5_EnterCancelRoundTrip ==
    \A o \in ViewerOrders(Cur) :
        LET S1 == After(Cur, "confirm_enter", o)
            S2 == After(S1, "confirm_cancel", o)
        IN  /\ Resident(S1, o)
            /\ S2.availableCash = availableCash
            /\ S2.availableAssetsDict = availableAssetsDict
            /\ Books(S2) = Books(Cur)

(* C5 witness: the viewer's order was entered into the book of another     *)
(* participant's order and then cancelled, and the available amounts and   *)
(* the books are as before the entry.                                      *)
C5_Witness ==
    /\ nEvents = 3
    /\ msg.type = "confirm_cancel"
    /\ msg.payload.pcode = Viewer
    /\ Resident(pre, msg.payload)
    /\ msg.payload.order_id = 2
    /\ Len(pre.bids) + Len(pre.asks) = 2
    /\ Len(Store(Cur, msg.payload.is_bid)) = 1
    /\ availableCash = InitCash
    /\ availableAssetsDict = [a \in Assets |-> InitAssets]

Unchanged(S) ==
    /\ Books(Cur) = Books(S)
    /\ trades = S.trades
    /\ Holdings(Cur) = Holdings(S)

(* C6: a confirm_cancel whose order_id is in neither book leaves the       *)
(* books, the trade list and the four holdings as they were, whoever owns  *)
(* the order, and warns once.                                              *)
C6_StaleCancelChangesNothing ==
    (msg.type = "confirm_cancel" /\ ~ResidentId(pre, msg.payload.order_id)) =>
        /\ Unchanged(pre)
        /\ Len(console) = 1
        /\ thrown = "none"

(* C7: a message whose type is none of the four throws, calls nothing,     *)
(* dispatches nothing and changes nothing; a message of one of the four    *)
(* types is handled by the handler of its type.                            *)
C7_UnknownTypeThrows ==
    /\ (msg.type # "none" /\ msg.type \notin DOMAIN message_handlers) =>
          /\ thrown # "none"
          /\ called = "none"
          /\ dispatched = <<>>
          /\ Unchanged(pre)
    /\ msg.type \in DOMAIN message_handlers =>
          /\ thrown = "none"
          /\ called = message_handlers[msg.type]

---------------------------------------------------------------------------
(* Trade legs *)

(* what a leg of price p and volume v gives the buyer (is_bid) or the seller *)
CashDelta(is_bid, p, v) == IF is_bid THEN -(p * v) ELSE p * v
AssetDelta(is_bid, v) == IF is_bid THEN v ELSE -v

(* the holdings H with a leg of price p and volume v on the side is_bid in asset a *)
WithLeg(H, is_bid, p, v, a) ==
    [H EXCEPT !.availableCash = @ + CashDelta(is_bid, p, v),
              !.settledCash = @ + CashDelta(is_bid, p, v),
              !.availableAssetsDict[a] = @ + AssetDelta(is_bid, v),
              !.settledAssetsDict[a] = @ + AssetDelta(is_bid, v)]

(* the holdings H with one leg for each making order of ms from the k-th   *)
(* on: as the taker's (asTaker), on the taker's side in the taker's asset; *)
(* else for the viewer's makers only, on the maker's side in its asset     *)
RECURSIVE WithLegs(_, _, _, _, _)
WithLegs(H, ms, k, asTaker, taker) ==
    IF k > Len(ms) THEN H
    ELSE LET mk == ms[k]
             o == IF asTaker THEN taker ELSE mk
             H1 == IF asTaker \/ mk.pcode = Viewer
                   THEN WithLeg(H, o.is_bid, mk.price, mk.traded_volume, o.asset_name)
                   ELSE H
         IN  WithLegs(H1, ms, k + 1, asTaker, taker)

(* making orders of the viewer: every side, price, resting volume, traded volume and asset *)
ViewerMakers ==
    {Fill(Order(1, p, v, b, Viewer, 0, a), tv) :
        p \in Prices, v \in Volumes, tv \in Volumes, b \in BOOLEAN, a \in Assets}
(* making orders of another participant that a taker on the side is_bid    *)
(* meets (they rest on the other side): every price, traded volume, asset  *)
OtherMakers(is_bid) ==
    {Fill(Order(1, p, 2, ~is_bid, Other, 0, a), tv) :
        p \in Prices, tv \in Volumes, a \in Assets}
(* taking orders of the viewer: every side and asset, at two prices and volumes *)
ViewerTakers ==
    {Order(2, pv[1], pv[2], b, Viewer, 0, a) :
        pv \in {<<1, 2>>, <<2, 1>>}, b \in BOOLEAN, a \in Assets}
OtherTaker == Order(2, 1, 2, FALSE, Other, 0, "A")

(* C8: a leg whose maker is the viewer's and whose taker is not moves the  *)
(* settled and the available amount of the maker's asset by the traded     *)
(* volume and settled and available cash by price * traded volume, up for  *)
(* the asset and down for the cash if the maker is a bid, the opposite if  *)
(* it is an ask; so does every such leg of a processed trade.              *)
C8_MakerLeg ==
    /\ \A mk \in ViewerMakers :
          Holdings(_trade_leg(Cur, Trade(1, OtherTaker, <<mk>>), mk))
             = WithLeg(Holdings(Cur), mk.is_bid, mk.price, mk.traded_volume, mk.asset_name)
    /\ (msg.type = "confirm_trade" /\ msg.payload.taking_order.pcode # Viewer) =>
          Holdings(Cur) = WithLegs(Holdings(pre), msg.payload.making_orders, 1,
                                   FALSE, msg.payload.taking_order)

(* C8 witness: a trade of another participant took part of the viewer's    *)
(* resting bid, and the viewer paid price * traded volume.                 *)
C8_Witness ==
    /\ msg.type = "confirm_trade"
    /\ msg.payload.taking_order.pcode # Viewer
    /\ \E k \in 1..Len(msg.payload.making_orders) :
          LET mk == msg.payload.making_orders[k]
          IN  /\ mk.pcode = Viewer /\ mk.is_bid
              /\ Resident(pre, mk)
              /\ mk.traded_volume < mk.volume
              /\ settledCash = pre.settledCash - mk.price * mk.traded_volume
              /\ settledAssetsDict[mk.asset_name]
                    = pre.settledAssetsDict[mk.asset_name] + mk.traded_volume

(* C9: a trade whose taker is the viewer's and whose makers are all other  *)
(* participants' moves the viewer's holdings once per making order, by     *)
(* that maker's price and traded volume on the taker's side in the taker's *)
(* asset; the taker's own price and volume play no part.                   *)
C9_TakerLegs ==
    /\ \A tk \in ViewerTakers : \A mk \in OtherMakers(tk.is_bid) :
          Holdings(_trade_leg(Cur, Trade(1, tk, <<mk>>), mk))
             = WithLeg(Holdings(Cur), tk.is_bid, mk.price, mk.traded_volume, tk.asset_name)
    /\ (/\ msg.type = "confirm_trade"
        /\ msg.payload.taking_order.pcode = Viewer
        /\ \A k \in 1..Len(msg.payload.making_orders) :
              msg.payload.making_orders[k].pcode # Viewer) =>
          Holdings(Cur) = WithLegs(Holdings(pre), msg.payload.making_orders, 1,
                                   TRUE, msg.payload.taking_order)

(* C9 witness: the viewer's buy order took two orders of other             *)
(* participants at different prices, and paid the sum of the two legs.     *)
C9_Witness ==
    /\ msg.type = "confirm_trade"
    /\ msg.payload.taking_order.pcode = Viewer
    /\ msg.payload.taking_order.is_bid
    /\ Len(msg.payload.making_orders) = 2
    /\ LET m1 == msg.payload.making_orders[1]
           m2 == msg.payload.making_orders[2]
       IN  /\ m1.pcode # Viewer /\ m2.pcode # Viewer
           /\ m1.price # m2.price
           /\ m1.asset_name # msg.payload.taking_order.asset_name
           /\ settledCash = pre.settledCash - m1.price * m1.traded_volume
                                            - m2.price * m2.traded_volume
           /\ settledAssetsDict[msg.payload.taking_order.asset_name]
                 = pre.settledAssetsDict[msg.payload.taking_order.asset_name]
                      + m1.traded_volume + m2.traded_volume

---------------------------------------------------------------------------
(* Frames *)

(* C11: an error message dispatches one 'error' event carrying its message *)
(* exactly when its pcode is the viewer's, and dispatches nothing          *)
(* otherwise; either way the books, the trade list and the holdings stay   *)
(* as they were.                                                           *)
C11_ErrorFiltered ==
    msg.type = "error" =>
        /\ (msg.payload.pcode = Viewer) =>
              dispatched = <<[name |-> "error", detail |-> msg.payload.message]>>
        /\ (msg.payload.pcode # Viewer) => dispatched = <<>>
        /\ Unchanged(pre)
        /\ thrown = "none"

(* C11 witness: an error addressed to the viewer arrived while orders      *)
(* rested in the books, and was dispatched.                                *)
C11_Witness ==
    /\ msg.type = "error"
    /\ msg.payload.pcode = Viewer
    /\ Len(dispatched) = 1
    /\ Len(bids) + Len(asks) = 2

(* C12: confirm_enter, confirm_cancel and error leave the settled cash and *)
(* every settled asset amount as they were, whoever owns the order.        *)
C12_SettledOnlyByTrades ==
    msg.type \in {"confirm_enter", "confirm_cancel", "error"} =>
        /\ settledCash = pre.settledCash
        /\ settledAssetsDict = pre.settledAssetsDict

(* C12 witness: after a trade had moved the settled cash, the viewer       *)
(* entered a bid: the available cash went down, the settled cash did not.  *)
C12_Witness ==
    /\ msg.type = "confirm_enter"
    /\ msg.payload.pcode = Viewer /\ msg.payload.is_bid
    /\ trades # <<>>
    /\ pre.settledCash # InitCash
    /\ availableCash < pre.availableCash
    /\ settledCash = pre.settledCash

(* m names the viewer nowhere: not as the owner of the entered or          *)
(* cancelled order, not as the taker or a maker of the trade               *)
NotAddressedToViewer(m) ==
    /\ m.type \in {"confirm_enter", "confirm_cancel"} => m.payload.pcode # Viewer
    /\ m.type = "confirm_trade" =>
          /\ m.payload.taking_order.pcode # Viewer
          /\ \A k \in 1..Len(m.payload.making_orders) :
                m.payload.making_orders[k].pcode # Viewer

(* C13: an enter, cancel or trade that names the viewer nowhere leaves the *)
(* four holdings as they were, and still enters the order into its book,   *)
(* takes the cancelled order and the makers out of theirs and records the  *)
(* trade.                                                                  *)
C13_OthersEventsKeepHoldings ==
    (msg.type \in {"confirm_enter", "confirm_cancel", "confirm_trade"}
        /\ NotAddressedToViewer(msg)) =>
        /\ Holdings(Cur) = Holdings(pre)
        /\ msg.type = "confirm_enter" =>
              /\ Resident(Cur, msg.payload)
              /\ Len(bids) + Len(asks) = Len(pre.bids) + Len(pre.asks) + 1
        /\ msg.type = "confirm_cancel" =>
              msg.payload.order_id \notin Ids(Store(Cur, msg.payload.is_bid))
        /\ msg.type = "confirm_trade" =>
              /\ Len(trades) = Len(pre.trades) + 1
              /\ \A k \in 1..Len(msg.payload.making_orders) :
                    LET mk == msg.payload.making_orders[k]
                    IN  mk.order_id \notin Ids(Store(Cur, mk.is_bid))

(* C13 witness: while an order of the viewer rested, a trade between other *)
(* participants took a resident order out of its book.                     *)
C13_Witness ==
    /\ msg.type = "confirm_trade"
    /\ NotAddressedToViewer(msg)
    /\ Resident(pre, msg.payload.making_orders[1])
    /\ availableCash # settledCash
    /\ Len(bids) + Len(asks) = Len(pre.bids) + Len(pre.asks) - 1

---------------------------------------------------------------------------
(* Makers of a trade *)

(* the trade t names the order o of the book is_bid as a making order *)
NamedMaker(t, o, is_bid) ==
    \E k \in 1..Len(t.making_orders) :
        /\ t.making_orders[k].order_id = o.order_id
        /\ t.making_orders[k].is_bid = is_bid

(* the book without the orders the trade t names as making orders *)
WithoutMakers(store, t, is_bid) ==
    LET Kept(o) == ~NamedMaker(t, o, is_bid)
    IN  SelectSeq(store, Kept)

(* C14: after a confirm_trade no making order of the trade is in the book  *)
(* its is_bid selects, also when its traded volume is less than its        *)
(* volume; each book is what it was without the named makers, in the same  *)
(* order and with nothing put in for a remainder.                          *)
C14_MakersRemoved ==
    msg.type = "confirm_trade" =>
        /\ \A k \in 1..Len(msg.payload.making_orders) :
              LET mk == msg.payload.making_orders[k]
              IN  mk.order_id \notin Ids(Store(Cur, mk.is_bid))
        /\ bids = WithoutMakers(pre.bids, msg.payload, TRUE)
        /\ asks = WithoutMakers(pre.asks, msg.payload, FALSE)

(* C14 witness: a trade took part of the volume of one of two orders       *)
(* resting in a book; that order is gone and the other one is left.        *)
C14_Witness ==
    /\ msg.type = "confirm_trade"
    /\ Len(msg.payload.making_orders) = 1
    /\ LET mk == msg.payload.making_orders[1]
       IN  /\ Resident(pre, mk)
           /\ mk.traded_volume < mk.volume
           /\ Len(Store(pre, mk.is_bid)) = 2
           /\ Len(Store(Cur, mk.is_bid)) = 1
           /\ mk.order_id \notin Ids(Store(Cur, mk.is_bid))

---------------------------------------------------------------------------
(* Stale references *)

(* the record _handle_confirm_trade makes of the trade message t *)
TradeRecord(t) ==
    [timestamp |-> t.timestamp, asset_name |-> t.asset_name,
     taking_order |-> t.taking_order, making_orders |-> t.making_orders]

(* the holdings H after every leg of the trade t: the viewer's makers on   *)
(* their own side, and every maker on the taker's side if the taker is the *)
(* viewer's                                                                *)
WithAllLegs(H, t) ==
    LET H1 == WithLegs(H, t.making_orders, 1, FALSE, t.taking_order)
    IN  IF t.taking_order.pcode = Viewer
        THEN WithLegs(H1, t.making_orders, 1, TRUE, t.taking_order)
        ELSE H1

(* what processing the message m in the state S does: the books and the   *)
(* trade list it leaves, by how much it moves each of the holdings, and    *)
(* what it throws, calls, dispatches and warns                             *)
Effect(S, m) ==
    LET r == _on_message(S, m)
    IN  [books |-> Books(r.state), trades |-> r.state.trades,
         availableCash |-> r.state.availableCash - S.availableCash,
         settledCash |-> r.state.settledCash - S.settledCash,
         availableAssets |-> [a \in Assets |->
             r.state.availableAssetsDict[a] - S.availableAssetsDict[a]],
         settledAssets |-> [a \in Assets |->
             r.state.settledAssetsDict[a] - S.settledAssetsDict[a]],
         thrown |-> r.thrown, called |-> r.called,
         dispatched |-> r.state.dispatched, console |-> r.state.console]

(* messages that may come next in the state S *)
LaterMessages(S) ==
    {Message("confirm_enter", o) : o \in WithFreshId(S, HoldShapes)}
        \cup {Message("confirm_cancel", o) : o \in Residents(S)}
        \cup {Message("confirm_trade", Trade(1, HoldTaker, <<mk>>)) :
                 mk \in FullFills(Residents(S))}
        \cup {Message("error", e) : e \in Errors}

(* C15: a confirm_cancel or confirm_trade naming an order that is not in   *)
(* its book throws nothing and completes: the cancel is notified; the      *)
(* trade's other makers are taken out of their books and all its legs move *)
(* the holdings, the trade is recorded and notified.  Every message of a   *)
(* known type that comes after a stale reference is handled by its handler *)
(* without a throw, and after a stale cancel every next message has the    *)
(* effect it would have had before it.                                     *)
C15_StaleNeverAborts ==
    /\ (msg.type = "confirm_cancel" /\ ~RefsResident(pre, msg)) =>
          \A m \in LaterMessages(Cur) : Effect(Cur, m) = Effect(pre, m)
    /\ (msg.type = "confirm_cancel" /\ ~RefsResident(pre, msg)) =>
          /\ thrown = "none"
          /\ called = "_handle_confirm_cancel"
          /\ dispatched = <<[name |-> "confirm-order-cancel", detail |-> msg.payload]>>
    /\ (msg.type = "confirm_trade" /\ ~RefsResident(pre, msg)) =>
          /\ thrown = "none"
          /\ called = "_handle_confirm_trade"
          /\ bids = WithoutMakers(pre.bids, msg.payload, TRUE)
          /\ asks = WithoutMakers(pre.asks, msg.payload, FALSE)
          /\ Holdings(Cur) = WithAllLegs(Holdings(pre), msg.payload)
          /\ Len(trades) = Len(pre.trades) + 1
          /\ TradeRecord(msg.payload) \in Range(trades)
          /\ dispatched = <<[name |-> "confirm-trade", detail |-> TradeRecord(msg.payload)]>>
    /\ (~residentRefs /\ msg.type \in DOMAIN message_handlers) =>
          /\ thrown = "none"
          /\ called = message_handlers[msg.type]

(* C15 witness: a trade named a maker that is in no book and then a        *)
(* resident order of the viewer; the warning was given, the resident maker *)
(* was taken out and paid, and the trade was recorded.                     *)
C15_Witness ==
    /\ msg.type = "confirm_trade"
    /\ Len(msg.payload.making_orders) = 2
    /\ ~ResidentId(pre, msg.payload.making_orders[1].order_id)
    /\ Resident(pre, msg.payload.making_orders[2])
    /\ msg.payload.making_orders[2].pcode = Viewer
    /\ Len(console) = 1
    /\ settledCash # pre.settledCash
    /\ Len(bids) + Len(asks) = Len(pre.bids) + Len(pre.asks) - 1
    /\ Len(trades) = Len(pre.trades) + 1

---------------------------------------------------------------------------
(* Malformed messages *)

(* C16: a message is applied in full or rejected as a whole: when          *)
(* _on_message throws, the books, the trade list and the holdings are as   *)
(* they were before the message, also for a confirm_trade that fails after *)
(* some of its legs.                                                       *)
C16_Transactional ==
    thrown # "none" => Unchanged(pre)

---------------------------------------------------------------------------
(* The place of an insert *)

(* a ranks ahead of b in the book is_bid: the better price (higher for a   *)
(* bid, lower for an ask), or the same price and the earlier timestamp     *)
RanksAhead(a, b, is_bid) ==
    \/ (is_bid /\ a.price > b.price)
    \/ (~is_bid /\ a.price < b.price)
    \/ (a.price = b.price /\ a.timestamp < b.timestamp)

(* the book with the order o placed immediately before its first order     *)
(* that does not rank ahead of o, at the end if there is none              *)
InsertByRank(store, o) ==
    LET notAhead == {j \in 1..Len(store) : ~RanksAhead(store[j], o, o.is_bid)}
        pos == IF notAhead = {} THEN Len(store) + 1
               ELSE CHOOSE j \in notAhead : \A k \in notAhead : j <= k
    IN  SubSeq(store, 1, pos - 1) \o <<o>> \o SubSeq(store, pos, Len(store))

(* C17: confirm_enter places the order immediately before the first        *)
(* resident order of its book that does not rank ahead of it, an order of  *)
(* the same price and timestamp included; the orders already there keep    *)
(* their order, and the other book and the trade list are untouched.       *)
C17_InsertPosition ==
    msg.type = "confirm_enter" =>
        /\ Store(Cur, msg.payload.is_bid)
              = InsertByRank(Store(pre, msg.payload.is_bid), msg.payload)
        /\ Store(Cur, ~msg.payload.is_bid) = Store(pre, ~msg.payload.is_bid)
        /\ trades = pre.trades

---------------------------------------------------------------------------
(* The trade list's content *)

(* the sequence s without its i-th element *)
Without(s, i) == SubSeq(s, 1, i - 1) \o SubSeq(s, i + 1, Len(s))

(* C18: the trade list holds one record for each confirm_trade handled so  *)
(* far; a confirm_trade adds the record of its trade and leaves the        *)
(* recorded trades as they were, and a message of any other type leaves    *)
(* the whole list as it was.                                               *)
C18_TradesOnlyAdded ==
    /\ Len(trades) = nTrades
    /\ msg.type = "confirm_trade" =>
          \E i \in 1..Len(trades) :
              /\ trades[i] = TradeRecord(msg.payload)
              /\ Without(trades, i) = pre.trades
    /\ msg.type \notin {"none", "confirm_trade"} => trades = pre.trades

(* C18 witness: two trades are recorded and a trade that had been recorded *)
(* before the last one is unchanged behind it.                             *)
C18_Witness ==
    /\ msg.type = "confirm_trade"
    /\ Len(trades) = 2
    /\ nTrades = 2
    /\ pre.trades # <<>>
    /\ pre.trades[1] \in Range(trades)
    /\ pre.trades[1] # TradeRecord(msg.payload)

---------------------------------------------------------------------------
(* The countdown *)

(* what holds in every state of the countdown *)
C19_Safe ==
    /\ timeRemaining # Null => timeRemaining[1] >= 0
    /\ lastTimer.op = "tick" =>
          IF lastTimer.timeRemaining[1] > 0
          THEN /\ timeRemaining = Num(lastTimer.timeRemaining[1] - 1)
               /\ pending = lastTimer.pending
          ELSE /\ timeRemaining = lastTimer.timeRemaining
               /\ pending = lastTimer.pending - 1
    /\ Not(time_remaining) =>
          /\ pending = 0
          /\ timeRemaining = time_remaining
          /\ lastTimer.op # "tick"

(* once timeRemaining is 0 it stays 0 and no step schedules a tick *)
C19_Step ==
    timeRemaining = Num(0) => (timeRemaining' = Num(0) /\ pending' <= pending)

C20_OneTickPending ==
    pending <= 1

=============================================================================
